---- MODULE Spec2Model ----
(***************************************************************************)
(* A model of rstudio::desktop::Options (src/cpp/desktop/DesktopOptions.cpp):*)
(* the QSettings-backed preference accessors, the main window bounds, the   *)
(* port number / local peer generation, the font selection, the resources   *)
(* path and the scratch temp directory.                                     *)
(*                                                                          *)
(* Every member function is an operator from the state of one run (a record *)
(* of the Options fields and of the world it touches) to the state after the*)
(* call, the call's result included; every action applies one of them.      *)
(* A second run, `twin', executes the same calls when the action is paired. *)
(***************************************************************************)
EXTENDS Integers, Sequences, FiniteSets, TLC

(* ------------------------------ bounds --------------------------------- *)

\* width in bits of the modelled `int' (the program's is 32 bits wide)
IntWidth == 17
\* most fonts of the candidate lists that are installed at once
MaxInstalled == 2
\* longest list of ignored update versions passed to the setter
MaxVersions == 1
\* most calls of a session that is run twice
MaxCalls == 3

(* ------------------------- program constants --------------------------- *)

DefaultZoomLevel == 100      \* 1.0; a double d is modelled by the integer 100 * d
DefaultWidth == 1200
DefaultHeight == 900
SaneWidth == 800
SaneHeight == 500
PortModulus == 40000
PortBase == 8080

VARIABLES
   platform,       \* the build: "windows", "mac", "linux" or "other" (the #if branches)
   exactMatch,     \* font families for which QFont(f).exactMatch() holds
   fixedPitch,     \* font families for which isFixedWidthFont(QFont(f)) holds
   scratchPath,    \* the global QString scratchPath, as a path (<<>> when empty)
   settings,       \* settings_: key -> QVariant (Invalid when the key is absent)
   portNumber_,    \* the held port number, a sequence of characters (<<>> when empty)
   localPeer_,     \* the held local peer, a sequence of characters
   env,            \* the value of the environment variable RS_LOCAL_PEER
   scriptsPath_,   \* a path, <<>> when empty
   supportingFilePath_,
   resourcesPath_,
   zoomInfo,       \* the zoom level held by desktopInfo()
   fs,             \* the filesystem: the existing paths, and whether it can be written
   win,            \* the geometry of the main window last passed in
   call,           \* the last call: its name, argument, result, and whether it drew
   twin,           \* the state of the second run
   ncalls          \* the calls issued so far to the two runs of a paired session

envVars == <<platform, exactMatch, fixedPitch, scratchPath>>
runVars == <<settings, portNumber_, localPeer_, env, scriptsPath_,
             supportingFilePath_, resourcesPath_, zoomInfo, fs, win, call>>
vars == <<envVars, runVars, twin, ncalls>>

(* ------------------------------ QVariant ------------------------------- *)

Invalid == [t |-> "Invalid", v |-> 0]
QBool(b) == [t |-> "Bool", v |-> b]
QDouble(d) == [t |-> "Double", v |-> d]
QString(s) == [t |-> "String", v |-> s]
QStringList(l) == [t |-> "StringList", v |-> l]
QRect(r) == [t |-> "Rect", v |-> r]

NullRect == [x |-> 0, y |-> 0, w |-> 0, h |-> 0]

toBool(q) ==
   CASE q.t = "Bool" -> q.v
     [] q.t = "Double" -> q.v # 0
     [] q.t = "String" -> q.v \notin {"", "0", "false"}
     [] OTHER -> FALSE

toDouble(q) ==
   CASE q.t = "Double" -> q.v
     [] q.t = "Bool" -> IF q.v THEN 100 ELSE 0
     [] OTHER -> 0

toString(q) ==
   CASE q.t = "String" -> q.v
     [] q.t = "Bool" -> IF q.v THEN "true" ELSE "false"
     [] q.t = "StringList" -> IF Len(q.v) = 1 THEN q.v[1] ELSE ""
     [] OTHER -> ""

toStringList(q) ==
   CASE q.t = "StringList" -> q.v
     [] q.t = "String" -> <<q.v>>
     [] OTHER -> <<>>

toRect(q) == IF q.t = "Rect" THEN q.v ELSE NullRect

(* ------------------------------ QSettings ------------------------------ *)

Keys == {"view.zoomLevel", "view.accessibility", "clipboard.monitoring",
         "general.ignoreGpuBlacklist", "general.disableGpuDriverBugWorkarounds",
         "desktop.renderingEngine", "ignoredUpdateVersions",
         "font.fixedWidth", "font.proportional", "mainwindow/bounds"}

contains(st, key) == st[key].t # "Invalid"
value(st, key, default) == IF contains(st, key) THEN st[key] ELSE default
setValue(st, key, v) == [st EXCEPT ![key] = v]
remove(st, key) == [st EXCEPT ![key] = Invalid]

(* ----------------------------- the last call --------------------------- *)

Void == "void"
Returned(s, op, arg, ret) ==
   [s EXCEPT !.call = [op |-> op, arg |-> arg, ret |-> ret, drew |-> FALSE]]

(* ------------------------- preference accessors ------------------------ *)

zoomLevel(s) ==
   LET zoom == value(s.settings, "view.zoomLevel", QDouble(DefaultZoomLevel))
   IN  Returned(s, "zoomLevel", Void, toDouble(zoom))

setZoomLevel(s, level) ==
   Returned([s EXCEPT !.zoomInfo = level,
                      !.settings = setValue(@, "view.zoomLevel", QDouble(level))],
            "setZoomLevel", level, Void)

enableAccessibility(s) ==
   LET accessibility == value(s.settings, "view.accessibility", QBool(FALSE))
   IN  Returned(s, "enableAccessibility", Void, toBool(accessibility))

\* a variant: the key of the neighbouring accessor
setEnableAccessibilityOtherKey(s, enable) ==
   Returned([s EXCEPT !.settings = setValue(@, "clipboard.monitoring", QBool(enable))],
            "setEnableAccessibility", enable, Void)

setEnableAccessibility(s, enable) ==
   Returned([s EXCEPT !.settings = setValue(@, "view.accessibility", QBool(enable))],
            "setEnableAccessibility", enable, Void)

\* a variant: the default of the other flags
clipboardMonitoringDefaultFalse(s) ==
   LET monitoring == value(s.settings, "clipboard.monitoring", QBool(FALSE))
   IN  Returned(s, "clipboardMonitoring", Void, toBool(monitoring))

clipboardMonitoring(s) ==
   LET monitoring == value(s.settings, "clipboard.monitoring", QBool(TRUE))
   IN  Returned(s, "clipboardMonitoring", Void, toBool(monitoring))

setClipboardMonitoring(s, monitoring) ==
   Returned([s EXCEPT !.settings = setValue(@, "clipboard.monitoring", QBool(monitoring))],
            "setClipboardMonitoring", monitoring, Void)

ignoreGpuBlacklist(s) ==
   LET ignore == value(s.settings, "general.ignoreGpuBlacklist", QBool(FALSE))
   IN  Returned(s, "ignoreGpuBlacklist", Void, toBool(ignore))

setIgnoreGpuBlacklist(s, ignore) ==
   Returned([s EXCEPT !.settings =
                         setValue(@, "general.ignoreGpuBlacklist", QBool(ignore))],
            "setIgnoreGpuBlacklist", ignore, Void)

disableGpuDriverBugWorkarounds(s) ==
   LET disable == value(s.settings, "general.disableGpuDriverBugWorkarounds",
                        QBool(FALSE))
   IN  Returned(s, "disableGpuDriverBugWorkarounds", Void, toBool(disable))

setDisableGpuDriverBugWorkarounds(s, disable) ==
   Returned([s EXCEPT !.settings =
                setValue(@, "general.disableGpuDriverBugWorkarounds", QBool(disable))],
            "setDisableGpuDriverBugWorkarounds", disable, Void)

desktopRenderingEngine(s) ==
   Returned(s, "desktopRenderingEngine", Void,
            toString(value(s.settings, "desktop.renderingEngine", Invalid)))

setDesktopRenderingEngine(s, engine) ==
   Returned([s EXCEPT !.settings =
                         setValue(@, "desktop.renderingEngine", QString(engine))],
            "setDesktopRenderingEngine", engine, Void)

ignoredUpdateVersions(s) ==
   Returned(s, "ignoredUpdateVersions", Void,
            toStringList(value(s.settings, "ignoredUpdateVersions",
                               QStringList(<<>>))))

setIgnoredUpdateVersions(s, ignoredVersions) ==
   Returned([s EXCEPT !.settings =
                setValue(@, "ignoredUpdateVersions", QStringList(ignoredVersions))],
            "setIgnoredUpdateVersions", ignoredVersions, Void)

(* --------------------------- main window bounds ------------------------ *)

\* QSize::boundedTo: the component-wise minimum
boundedTo(size, other) ==
   [w |-> IF size.w < other.w THEN size.w ELSE other.w,
    h |-> IF size.h < other.h THEN size.h ELSE other.h]

\* a variant: the stored bounds clipped to the available size
restoreMainWindowBoundsClipped(s, geometry, available) ==
   LET key == "mainwindow/bounds"
       arg == [geometry |-> geometry, available |-> available]
       bounds == toRect(value(s.settings, key, Invalid))
       size == boundedTo([w |-> bounds.w, h |-> bounds.h], available)
   IN  Returned([s EXCEPT !.win = IF contains(s.settings, key)
                                  THEN [bounds EXCEPT !.w = size.w, !.h = size.h]
                                  ELSE geometry],
                "restoreMainWindowBounds", arg, Void)

\* `geometry' is the geometry of the window passed in, `available' the size of
\* QApplication::desktop()->availableGeometry()
restoreMainWindowBounds(s, geometry, available) ==
   LET key == "mainwindow/bounds"
       arg == [geometry |-> geometry, available |-> available]
   IN  IF contains(s.settings, key)
       THEN LET bounds == toRect(value(s.settings, key, Invalid))
            IN  Returned([s EXCEPT !.win = bounds],
                         "restoreMainWindowBounds", arg, Void)
       ELSE LET size == boundedTo([w |-> DefaultWidth, h |-> DefaultHeight], available)
            IN  IF size.w > SaneWidth /\ size.h > SaneHeight
                THEN Returned([s EXCEPT !.win = [geometry EXCEPT !.w = size.w,
                                                                  !.h = size.h]],
                              "restoreMainWindowBounds", arg, Void)
                ELSE Returned([s EXCEPT !.win = geometry],
                              "restoreMainWindowBounds", arg, Void)

saveMainWindowBounds(s, geometry) ==
   LET bounds == QRect(geometry)
   IN  Returned([s EXCEPT !.win = geometry,
                          !.settings = setValue(@, "mainwindow/bounds", bounds)],
                "saveMainWindowBounds", geometry, Void)

(* ----------------------- port number and local peer -------------------- *)

IntMin == -(2 ^ (IntWidth - 1))
IntMax == 2 ^ (IntWidth - 1) - 1
IntRange == IntMin .. IntMax

\* std::abs(int): undefined for the most negative int, where a build either
\* negates in two's complement (the value itself) or carries on with the
\* magnitude in an unsigned register
stdAbs(x) ==
   IF x = IntMin THEN {IntMin, -IntMin} ELSE {IF x < 0 THEN -x ELSE x}

\* the C++ operator %: the quotient truncates towards zero
Rem(a, b) == IF a >= 0 THEN a % b ELSE -((-a) % b)

DigitChar(d) == <<"0", "1", "2", "3", "4", "5", "6", "7", "8", "9">>[d + 1]

RECURSIVE NatToChars(_)
NatToChars(n) ==
   IF n < 10 THEN <<DigitChar(n)>>
   ELSE Append(NatToChars(n \div 10), DigitChar(n % 10))

\* QString::number(int): decimal, with a leading minus sign when negative
QStringNumber(n) == IF n < 0 THEN <<"-">> \o NatToChars(-n) ELSE NatToChars(n)

PipePrefix == <<"\\", "\\", ".", "\\", "p", "i", "p", "e", "\\">>
RSessionSuffix == <<"-", "r", "s", "e", "s", "s", "i", "o", "n">>

\* a variant: the local peer computed on every platform
IsAnyBuild == TRUE

\* #ifdef _WIN32
IsWin32 == platform = "windows"

\* `absBase' is the value of std::abs(core::random::uniformRandomInteger<int>())
portNumber(s, absBase) ==
   IF Len(s.portNumber_) = 0
   THEN LET port == QStringNumber(Rem(absBase, PortModulus) + PortBase)
            localPeer == PipePrefix \o port \o RSessionSuffix
            t == IF IsWin32
                 THEN [s EXCEPT !.portNumber_ = port,
                                !.localPeer_ = localPeer,
                                !.env = localPeer]
                 ELSE [s EXCEPT !.portNumber_ = port]
        IN  [t EXCEPT !.call = [op |-> "portNumber", arg |-> Void,
                                ret |-> port, drew |-> TRUE]]
   ELSE Returned(s, "portNumber", Void, s.portNumber_)

\* a variant: the held port number is not cleared
newPortNumberKept(s, absBase) ==
   [portNumber(s, absBase) EXCEPT !.call.op = "newPortNumber"]

newPortNumber(s, absBase) ==
   LET r == portNumber([s EXCEPT !.portNumber_ = <<>>], absBase)
   IN  [r EXCEPT !.call.op = "newPortNumber"]

localPeer(s) == Returned(s, "localPeer", Void, s.localPeer_)

(* --------------------------------- fonts ------------------------------- *)

RECURSIVE findFrom(_, _, _, _)
findFrom(fonts, i, defaultFont, fixedWidthOnly) ==
   IF i > Len(fonts) THEN defaultFont
   ELSE IF /\ fonts[i] \in exactMatch
           /\ (~fixedWidthOnly \/ fonts[i] \in fixedPitch)
        THEN fonts[i]
        ELSE findFrom(fonts, i + 1, defaultFont, fixedWidthOnly)

\* a variant: the width of the font is not looked at
findFirstMatchingFontAnyWidth(fonts, defaultFont, fixedWidthOnly) ==
   findFrom(fonts, 1, defaultFont, FALSE)

findFirstMatchingFont(fonts, defaultFont, fixedWidthOnly) ==
   findFrom(fonts, 1, defaultFont, fixedWidthOnly)

\* the function-local statics detectedFont: declared, and assigned nowhere
detectedFont == ""

ProportionalFontList ==
   CASE platform = "windows" ->
           <<"Segoe UI", "Verdana", "Lucida Sans", "DejaVu Sans",
             "Lucida Grande", "Helvetica">>
     [] platform = "mac" ->
           <<"Lucida Grande", "Lucida Sans", "DejaVu Sans", "Segoe UI",
             "Verdana", "Helvetica">>
     [] OTHER ->
           <<"Lucida Sans", "DejaVu Sans", "Lucida Grande", "Segoe UI",
             "Verdana", "Helvetica">>

FixedWidthFontList ==
   CASE platform = "mac" -> <<"Monaco">>
     [] platform = "linux" ->
           <<"Ubuntu Mono", "Droid Sans Mono", "DejaVu Sans Mono", "Monospace">>
     [] OTHER -> <<"Lucida Console", "Consolas">>

Quoted(f) == "\"" \o f \o "\""

proportionalFont(s) ==
   LET font == toString(value(s.settings, "font.proportional", Invalid))
       sansSerif == "sans-serif"
       selectedFont == findFirstMatchingFont(ProportionalFontList, sansSerif, FALSE)
       ret == IF font # "" THEN font
              ELSE IF detectedFont # "" THEN detectedFont
              ELSE IF selectedFont = sansSerif THEN sansSerif
              ELSE Quoted(selectedFont)
   IN  Returned(s, "proportionalFont", Void, ret)

setFixedWidthFont(s, font) ==
   Returned([s EXCEPT !.settings = IF font = ""
                                   THEN remove(@, "font.fixedWidth")
                                   ELSE setValue(@, "font.fixedWidth", QString(font))],
            "setFixedWidthFont", font, Void)

fixedWidthFont(s) ==
   LET font == toString(value(s.settings, "font.fixedWidth", Invalid))
       monospace == "monospace"
       matchingFont == findFirstMatchingFont(FixedWidthFontList, monospace, TRUE)
       ret == IF font # "" THEN "\"" \o font \o "\""
              ELSE IF detectedFont # "" THEN detectedFont
              ELSE IF matchingFont = monospace THEN monospace
              ELSE Quoted(matchingFont)
   IN  Returned(s, "fixedWidthFont", Void, ret)

(* --------------------------------- paths ------------------------------- *)

\* core::FilePath: a path is the sequence of its components, <<>> when empty
exists(f, path) == path \in f.paths
complete(path, name) == Append(path, name)

IsUnder(path, dir) ==
   Len(path) >= Len(dir) /\ SubSeq(path, 1, Len(dir)) = dir

\* FilePath::ensureDirectory: creates the directory unless it exists
ensureDirectory(f, dir) ==
   IF exists(f, dir) THEN [fs |-> f, error |-> FALSE]
   ELSE IF f.writable
        THEN [fs |-> [f EXCEPT !.paths = @ \cup {dir}], error |-> FALSE]
        ELSE [fs |-> f, error |-> TRUE]

\* FilePath::removeIfExists: removes the path and what is under it
removeIfExists(f, path) ==
   IF exists(f, path) /\ f.writable
   THEN [f EXCEPT !.paths = {q \in @ : ~IsUnder(q, path)}]
   ELSE f

\* core::system::installPath("..", argv[0])
InstallPath == <<"opt", "rstudio">>

scriptsPath(s) == Returned(s, "scriptsPath", Void, s.scriptsPath_)

setScriptsPath(s, path) ==
   Returned([s EXCEPT !.scriptsPath_ = path], "setScriptsPath", path, Void)

supportingFilePath(s) ==
   IF s.supportingFilePath_ = <<>>
   THEN LET path == IF platform = "mac"
                       /\ exists(s.fs, complete(InstallPath, "Info.plist"))
                    THEN complete(InstallPath, "Resources")
                    ELSE InstallPath
        IN  Returned([s EXCEPT !.supportingFilePath_ = path],
                     "supportingFilePath", Void, path)
   ELSE Returned(s, "supportingFilePath", Void, s.supportingFilePath_)

resourcesPath(s) ==
   IF s.resourcesPath_ = <<>>
   THEN IF exists(s.fs, complete(s.scriptsPath_, "resources"))
        THEN LET path == complete(s.scriptsPath_, "resources")
             IN  Returned([s EXCEPT !.resourcesPath_ = path],
                          "resourcesPath", Void, path)
        ELSE LET t == supportingFilePath(s)
                 path == complete(t.call.ret, "resources")
             IN  Returned([t EXCEPT !.resourcesPath_ = path],
                          "resourcesPath", Void, path)
   ELSE Returned(s, "resourcesPath", Void, s.resourcesPath_)

(* ------------------------- scratch temp directory ---------------------- *)

\* a variant: the scratch path is not checked to exist
scratchTempDirUnchecked(s, defaultPath) ==
   LET dir == scratchPath
       tmp == complete(dir, "tmp")
       e == ensureDirectory(s.fs, tmp)
   IN  IF dir # <<>> /\ ~e.error
       THEN Returned([s EXCEPT !.fs = e.fs], "scratchTempDir", defaultPath, tmp)
       ELSE Returned(s, "scratchTempDir", defaultPath, defaultPath)

scratchTempDir(s, defaultPath) ==
   LET dir == scratchPath
   IN  IF dir # <<>> /\ exists(s.fs, dir)
       THEN LET tmp == complete(dir, "tmp")
                e == ensureDirectory(s.fs, tmp)
            IN  IF ~e.error
                THEN Returned([s EXCEPT !.fs = e.fs], "scratchTempDir",
                              defaultPath, tmp)
                ELSE Returned([s EXCEPT !.fs = e.fs], "scratchTempDir",
                              defaultPath, defaultPath)
       ELSE Returned(s, "scratchTempDir", defaultPath, defaultPath)

cleanUpScratchTempDir(s) ==
   LET r == scratchTempDir(s, <<>>)
       temp == r.call.ret
   IN  IF temp # <<>>
       THEN Returned([r EXCEPT !.fs = removeIfExists(@, temp)],
                     "cleanUpScratchTempDir", Void, Void)
       ELSE Returned(r, "cleanUpScratchTempDir", Void, Void)

(* ------------------------------ the state ------------------------------ *)

Cur ==
   [settings |-> settings, portNumber_ |-> portNumber_, localPeer_ |-> localPeer_,
    env |-> env, scriptsPath_ |-> scriptsPath_,
    supportingFilePath_ |-> supportingFilePath_, resourcesPath_ |-> resourcesPath_,
    zoomInfo |-> zoomInfo, fs |-> fs, win |-> win, call |-> call]

Becomes(s) ==
   /\ settings' = s.settings
   /\ portNumber_' = s.portNumber_
   /\ localPeer_' = s.localPeer_
   /\ env' = s.env
   /\ scriptsPath_' = s.scriptsPath_
   /\ supportingFilePath_' = s.supportingFilePath_
   /\ resourcesPath_' = s.resourcesPath_
   /\ zoomInfo' = s.zoomInfo
   /\ fs' = s.fs
   /\ win' = s.win
   /\ call' = s.call

\* one call: this run goes to `next'; when `paired', the second run makes the
\* same call and goes to `twinNext'
Step(paired, next, twinNext) ==
   /\ paired => ncalls < MaxCalls
   /\ Becomes(next)
   /\ twin' = IF paired THEN twinNext ELSE twin
   /\ ncalls' = IF paired THEN ncalls + 1 ELSE ncalls
   /\ UNCHANGED envVars

Call(paired, F(_)) == Step(paired, F(Cur), F(twin))

(* ------------------------------ the inputs ----------------------------- *)

Platforms == {"windows", "mac", "linux", "other"}

ZoomLevels == {100, 150}
Engines == {"", "software"}
Versions == {"1.2.1335"}
VersionLists == UNION {[1..n -> Versions] : n \in 0..MaxVersions}
FontNames == {"", "Courier New"}
StoredProportional == {Invalid, QString("Arial")}

Geometries == {[x |-> 0, y |-> 0, w |-> 640, h |-> 480],
               [x |-> 100, y |-> 50, w |-> 1400, h |-> 1000]}
AvailableSizes == {[w |-> 1920, h |-> 1080], [w |-> 1024, h |-> 768],
                   [w |-> 800, h |-> 600], [w |-> 1366, h |-> 500]}

\* values of the random source tried where not every int is
SampleInts == {IntMin, -1, 40000}

FontUniverse ==
   {"Segoe UI", "Verdana", "Lucida Sans", "DejaVu Sans", "Lucida Grande",
    "Helvetica", "Monaco", "Ubuntu Mono", "Droid Sans Mono", "DejaVu Sans Mono",
    "Monospace", "Lucida Console", "Consolas"}
FixedCandidates ==
   {"Monaco", "Ubuntu Mono", "Droid Sans Mono", "DejaVu Sans Mono", "Monospace",
    "Lucida Console", "Consolas"}

\* the installed fonts: which match exactly, and which of those are fixed width
AllFonts ==
   {<<e, f>> : e \in {x \in SUBSET FontUniverse : Cardinality(x) <= MaxInstalled},
               f \in SUBSET FixedCandidates} \cap
   {<<e, f>> \in (SUBSET FontUniverse) \X (SUBSET FixedCandidates) : f \subseteq e}
NoFonts == {<<{}, {}>>}

Scratch == <<"scratch">>
OsTemp == <<"tmp">>
DevScripts == <<"dev", "desktop">>

\* the filesystems: every path but the root of one has its parent
FsPaths ==
   {Scratch, complete(Scratch, "tmp"), complete(complete(Scratch, "tmp"), "x"),
    complete(Scratch, "keep"), complete(DevScripts, "resources"),
    complete(InstallPath, "Info.plist")}
Rooted(path) == Len(path) = 1 \/ SubSeq(path, 1, Len(path) - 1) \in {DevScripts, InstallPath}
AllFiles ==
   {<<sp, [paths |-> ps \cup {OsTemp}, writable |-> w]>> :
       sp \in {<<>>, Scratch},
       ps \in {x \in SUBSET FsPaths :
                 \A q \in x : Rooted(q) \/ SubSeq(q, 1, Len(q) - 1) \in x},
       w \in BOOLEAN}
OneFs == {<<Scratch, [paths |-> {Scratch, OsTemp}, writable |-> TRUE]>>}

(* --------------------------------- Init -------------------------------- *)

FreshSettings(proportional) ==
   [k \in Keys |-> IF k = "font.proportional" THEN proportional ELSE Invalid]

NoCall == [op |-> "none", arg |-> Void, ret |-> Void, drew |-> FALSE]

InitWith(platforms, fonts, files, proportionals) ==
   /\ platform \in platforms
   /\ \E ef \in fonts : exactMatch = ef[1] /\ fixedPitch = ef[2]
   /\ \E sf \in files : scratchPath = sf[1] /\ fs = sf[2]
   /\ \E q \in proportionals : settings = FreshSettings(q)
   /\ portNumber_ = <<>>
   /\ localPeer_ = <<>>
   /\ env = <<>>
   /\ scriptsPath_ = <<>>
   /\ supportingFilePath_ = <<>>
   /\ resourcesPath_ = <<>>
   /\ zoomInfo = DefaultZoomLevel
   /\ win = [x |-> 0, y |-> 0, w |-> 640, h |-> 480]
   /\ call = NoCall
   /\ twin = Cur
   /\ ncalls = 0

(* ------------------------------- actions ------------------------------- *)

ZoomLevel(p) == Call(p, zoomLevel)
SetZoomLevel(p) == \E z \in ZoomLevels : Call(p, LAMBDA s : setZoomLevel(s, z))
EnableAccessibility(p) == Call(p, enableAccessibility)
SetEnableAccessibility(p) ==
   \E b \in BOOLEAN : Call(p, LAMBDA s : setEnableAccessibility(s, b))
ClipboardMonitoring(p) == Call(p, clipboardMonitoring)
SetClipboardMonitoring(p) ==
   \E b \in BOOLEAN : Call(p, LAMBDA s : setClipboardMonitoring(s, b))
IgnoreGpuBlacklist(p) == Call(p, ignoreGpuBlacklist)
SetIgnoreGpuBlacklist(p) ==
   \E b \in BOOLEAN : Call(p, LAMBDA s : setIgnoreGpuBlacklist(s, b))
DisableGpuDriverBugWorkarounds(p) == Call(p, disableGpuDriverBugWorkarounds)
SetDisableGpuDriverBugWorkarounds(p) ==
   \E b \in BOOLEAN : Call(p, LAMBDA s : setDisableGpuDriverBugWorkarounds(s, b))
DesktopRenderingEngine(p) == Call(p, desktopRenderingEngine)
SetDesktopRenderingEngine(p) ==
   \E e \in Engines : Call(p, LAMBDA s : setDesktopRenderingEngine(s, e))
IgnoredUpdateVersions(p) == Call(p, ignoredUpdateVersions)
SetIgnoredUpdateVersions(p) ==
   \E l \in VersionLists : Call(p, LAMBDA s : setIgnoredUpdateVersions(s, l))

RestoreMainWindowBounds(p) ==
   \E g \in Geometries, a \in AvailableSizes :
      Call(p, LAMBDA s : restoreMainWindowBounds(s, g, a))
SaveMainWindowBounds(p) ==
   \E g \in Geometries : Call(p, LAMBDA s : saveMainWindowBounds(s, g))

ProportionalFont(p) == Call(p, proportionalFont)
SetFixedWidthFont(p) == \E f \in FontNames : Call(p, LAMBDA s : setFixedWidthFont(s, f))
FixedWidthFont(p) == Call(p, fixedWidthFont)

\* the values uniformRandomInteger<int>() may return to a call: none is drawn
\* while a port number is held
Draws(ints, held) == IF Len(held) = 0 THEN ints ELSE {0}

\* each run draws from its own random source
PortNumber(p, ints) ==
   \E b \in Draws(ints, portNumber_),
      tb \in (IF p THEN Draws(ints, twin.portNumber_) ELSE {0}) :
   \E a \in stdAbs(b), ta \in stdAbs(tb) :
      Step(p, portNumber(Cur, a), portNumber(twin, ta))
NewPortNumber(p, ints) ==
   \E b \in ints, tb \in (IF p THEN ints ELSE {0}) :
   \E a \in stdAbs(b), ta \in stdAbs(tb) :
      Step(p, newPortNumber(Cur, a), newPortNumber(twin, ta))
LocalPeer(p) == Call(p, localPeer)

ScriptsPath(p) == Call(p, scriptsPath)
SetScriptsPath(p) ==
   \E path \in {DevScripts, <<"opt", "rstudio", "bin">>} :
      Call(p, LAMBDA s : setScriptsPath(s, path))
SupportingFilePath(p) == Call(p, supportingFilePath)
ResourcesPath(p) == Call(p, resourcesPath)

ScratchTempDir(p) ==
   \E d \in {<<>>, OsTemp} : Call(p, LAMBDA s : scratchTempDir(s, d))
CleanUpScratchTempDir(p) == Call(p, cleanUpScratchTempDir)

(* ---------------------------- specifications --------------------------- *)

\* the settings store: the plain accessors, among getters of the other parts
InitPrefs == InitWith({"linux"}, NoFonts, OneFs, {Invalid})
NextPrefs ==
   \/ ZoomLevel(FALSE) \/ SetZoomLevel(FALSE)
   \/ EnableAccessibility(FALSE) \/ SetEnableAccessibility(FALSE)
   \/ ClipboardMonitoring(FALSE) \/ SetClipboardMonitoring(FALSE)
   \/ IgnoreGpuBlacklist(FALSE) \/ SetIgnoreGpuBlacklist(FALSE)
   \/ DisableGpuDriverBugWorkarounds(FALSE) \/ SetDisableGpuDriverBugWorkarounds(FALSE)
   \/ DesktopRenderingEngine(FALSE) \/ SetDesktopRenderingEngine(FALSE)
   \/ IgnoredUpdateVersions(FALSE) \/ SetIgnoredUpdateVersions(FALSE)
   \/ ProportionalFont(FALSE) \/ FixedWidthFont(FALSE)
   \/ LocalPeer(FALSE) \/ ScriptsPath(FALSE)
SpecPrefs == InitPrefs /\ [][NextPrefs]_vars

\* the main window bounds, among other writers of settings_
InitWindow == InitWith({"linux"}, NoFonts, OneFs, {Invalid})
NextWindow ==
   \/ RestoreMainWindowBounds(FALSE) \/ SaveMainWindowBounds(FALSE)
   \/ ZoomLevel(FALSE) \/ SetZoomLevel(FALSE)
   \/ SetFixedWidthFont(FALSE)
SpecWindow == InitWindow /\ [][NextWindow]_vars

\* the fonts, on every platform and with every set of installed fonts
InitFont == InitWith(Platforms, AllFonts, OneFs, StoredProportional)
NextFont ==
   \/ ProportionalFont(FALSE) \/ SetFixedWidthFont(FALSE) \/ FixedWidthFont(FALSE)
SpecFont == InitFont /\ [][NextFont]_vars

\* the port number: the first one generated from any int
InitPort == InitWith({"windows", "linux"}, NoFonts, OneFs, {Invalid})
NextPort ==
   \/ PortNumber(FALSE, IntRange) \/ NewPortNumber(FALSE, SampleInts)
   \/ LocalPeer(FALSE)
SpecPort == InitPort /\ [][NextPort]_vars

\* the paths and the scratch temp directory, on every filesystem
InitFiles == InitWith({"mac", "linux"}, NoFonts, AllFiles, {Invalid})
NextFiles ==
   \/ ScriptsPath(FALSE) \/ SetScriptsPath(FALSE)
   \/ SupportingFilePath(FALSE) \/ ResourcesPath(FALSE)
   \/ ScratchTempDir(FALSE) \/ CleanUpScratchTempDir(FALSE)
SpecFiles == InitFiles /\ [][NextFiles]_vars

\* two runs of one session of at most MaxCalls calls, of any operations
InitPair == InitWith({"windows", "linux"}, NoFonts, OneFs, {Invalid})
NextPair ==
   \/ ZoomLevel(TRUE) \/ SetZoomLevel(TRUE)
   \/ EnableAccessibility(TRUE) \/ SetEnableAccessibility(TRUE)
   \/ ClipboardMonitoring(TRUE) \/ SetClipboardMonitoring(TRUE)
   \/ IgnoreGpuBlacklist(TRUE) \/ SetIgnoreGpuBlacklist(TRUE)
   \/ DisableGpuDriverBugWorkarounds(TRUE) \/ SetDisableGpuDriverBugWorkarounds(TRUE)
   \/ DesktopRenderingEngine(TRUE) \/ SetDesktopRenderingEngine(TRUE)
   \/ IgnoredUpdateVersions(TRUE) \/ SetIgnoredUpdateVersions(TRUE)
   \/ RestoreMainWindowBounds(TRUE) \/ SaveMainWindowBounds(TRUE)
   \/ ProportionalFont(TRUE) \/ SetFixedWidthFont(TRUE) \/ FixedWidthFont(TRUE)
   \/ PortNumber(TRUE, SampleInts) \/ NewPortNumber(TRUE, SampleInts)
   \/ LocalPeer(TRUE)
   \/ ScriptsPath(TRUE) \/ SetScriptsPath(TRUE)
   \/ SupportingFilePath(TRUE) \/ ResourcesPath(TRUE)
   \/ ScratchTempDir(TRUE) \/ CleanUpScratchTempDir(TRUE)
SpecPair == InitPair /\ [][NextPair]_vars

(* ============================== the claims ============================= *)

Stored(st, key, default) == IF st[key].t = "Invalid" THEN default ELSE st[key].v

\* what each preference getter is to return from the store `st'
Expected(op, st) ==
   CASE op = "zoomLevel" -> Stored(st, "view.zoomLevel", 100)
     [] op = "enableAccessibility" -> Stored(st, "view.accessibility", FALSE)
     [] op = "clipboardMonitoring" -> Stored(st, "clipboard.monitoring", TRUE)
     [] op = "ignoreGpuBlacklist" -> Stored(st, "general.ignoreGpuBlacklist", FALSE)
     [] op = "disableGpuDriverBugWorkarounds" ->
           Stored(st, "general.disableGpuDriverBugWorkarounds", FALSE)
     [] op = "ignoredUpdateVersions" -> Stored(st, "ignoredUpdateVersions", <<>>)
     [] op = "desktopRenderingEngine" -> Stored(st, "desktop.renderingEngine", "")

Getters ==
   {"zoomLevel", "enableAccessibility", "clipboardMonitoring", "ignoreGpuBlacklist",
    "disableGpuDriverBugWorkarounds", "ignoredUpdateVersions",
    "desktopRenderingEngine"}

\* C1: a call of a preference getter returns the value stored under its key, or
\* its fixed default (1.0, false, true, false, false, the empty list, the empty
\* string) when the key is absent, and leaves the settings store as it was.
C1_GettersReadStoredOrDefault ==
   [][call'.op \in Getters =>
         /\ settings' = settings
         /\ call'.ret = Expected(call'.op, settings)]_vars

\* C1 happens: a getter returned a stored value that is not its default, and
\* another getter's key is absent
C1_Witness ==
   /\ call.op = "clipboardMonitoring"
   /\ call.ret = FALSE
   /\ settings["clipboard.monitoring"] = QBool(FALSE)
   /\ ~contains(settings, "view.zoomLevel")

PlainKeys ==
   {"view.zoomLevel", "view.accessibility", "clipboard.monitoring",
    "general.ignoreGpuBlacklist", "general.disableGpuDriverBugWorkarounds",
    "desktop.renderingEngine", "ignoredUpdateVersions"}

SetterOf(key) ==
   CASE key = "view.zoomLevel" -> "setZoomLevel"
     [] key = "view.accessibility" -> "setEnableAccessibility"
     [] key = "clipboard.monitoring" -> "setClipboardMonitoring"
     [] key = "general.ignoreGpuBlacklist" -> "setIgnoreGpuBlacklist"
     [] key = "general.disableGpuDriverBugWorkarounds" ->
           "setDisableGpuDriverBugWorkarounds"
     [] key = "desktop.renderingEngine" -> "setDesktopRenderingEngine"
     [] key = "ignoredUpdateVersions" -> "setIgnoredUpdateVersions"

\* what the getter of `key' returns when called in state s
Get(key, s) ==
   CASE key = "view.zoomLevel" -> zoomLevel(s).call.ret
     [] key = "view.accessibility" -> enableAccessibility(s).call.ret
     [] key = "clipboard.monitoring" -> clipboardMonitoring(s).call.ret
     [] key = "general.ignoreGpuBlacklist" -> ignoreGpuBlacklist(s).call.ret
     [] key = "general.disableGpuDriverBugWorkarounds" ->
           disableGpuDriverBugWorkarounds(s).call.ret
     [] key = "desktop.renderingEngine" -> desktopRenderingEngine(s).call.ret
     [] key = "ignoredUpdateVersions" -> ignoredUpdateVersions(s).call.ret

\* C2: for every plain setter/getter pair, right after setX(v) the getter X()
\* returns v and every other key of the store is as before, and a step of any
\* other operation leaves what X() returns as it was: so X() returns v until
\* setX is called again.
C2_SetThenGet ==
   [][LET before == Cur
          after == Cur'
      IN  \A k \in PlainKeys :
             IF call'.op = SetterOf(k)
             THEN /\ Get(k, after) = call'.arg
                  /\ \A j \in Keys \ {k} : settings'[j] = settings[j]
             ELSE Get(k, after) = Get(k, before)]_vars

\* C2 happens: the zoom level was set to 1.5, other keys were written, and a
\* later call of the getter returned 1.5
C2_Witness ==
   /\ call.op = "zoomLevel"
   /\ call.ret = 150
   /\ contains(settings, "view.accessibility")
   /\ contains(settings, "desktop.renderingEngine")
   /\ contains(settings, "ignoredUpdateVersions")

\* C3, as stated: every call returns the same result in the two runs.
C3_SameResults == call.ret = twin.call.ret

\* C3, amended: every call other than portNumber() and newPortNumber(), and
\* other than localPeer() on Windows, returns the same result in the two runs.
C3_SameResultsButPort ==
   (/\ call.op \notin {"portNumber", "newPortNumber"}
    /\ ~(call.op = "localPeer" /\ platform = "windows"))
      => call.ret = twin.call.ret

\* C3 happens: the two runs hold different port numbers, and a later call of
\* another operation has returned
C3_Witness ==
   /\ portNumber_ # twin.portNumber_
   /\ call.op = "resourcesPath"
   /\ call.ret = twin.call.ret

Smaller(a, b) == IF a < b THEN a ELSE b

\* C4: saveMainWindowBounds stores the window's geometry and no other operation
\* writes that key; restoreMainWindowBounds gives the window the stored
\* rectangle whatever the available size, or with no stored rectangle resizes it
\* to 1200x900 clipped to the available size if that is wider than 800 and
\* higher than 500 and else leaves its size as it was; and it never writes to
\* the store.
C4_BoundsPersist ==
   [][LET key == "mainwindow/bounds"
          arg == call'.arg
      IN  /\ call'.op = "saveMainWindowBounds" => settings'[key] = QRect(arg)
          /\ call'.op # "saveMainWindowBounds" => settings'[key] = settings[key]
          /\ call'.op = "restoreMainWindowBounds" =>
                /\ settings' = settings
                /\ settings[key].t # "Invalid" => win' = settings[key].v
                /\ settings[key].t = "Invalid" =>
                      LET w == Smaller(1200, arg.available.w)
                          h == Smaller(900, arg.available.h)
                      IN  IF w > 800 /\ h > 500
                          THEN win'.w = w /\ win'.h = h
                          ELSE win'.w = arg.geometry.w /\ win'.h = arg.geometry.h]_vars

\* C4 happens: a window of another geometry was restored to a saved rectangle
\* that is larger than the available size
C4_Witness ==
   /\ call.op = "restoreMainWindowBounds"
   /\ contains(settings, "mainwindow/bounds")
   /\ win = settings["mainwindow/bounds"].v
   /\ win # call.arg.geometry
   /\ win.w > call.arg.available.w

ScratchTmp == Append(scratchPath, "tmp")
\* the scratch temp dir can be resolved in filesystem f
Resolvable(f) ==
   /\ scratchPath # <<>>
   /\ scratchPath \in f.paths
   /\ (ScratchTmp \in f.paths \/ f.writable)

\* C5: scratchTempDir(defaultPath) returns the child "tmp" of the scratch path
\* exactly when the scratch path is non-empty and exists and "tmp" exists or
\* could be created, and defaultPath otherwise; cleanUpScratchTempDir removes
\* nothing outside that "tmp" directory, and nothing at all when it cannot be
\* resolved.
C5_ScratchTempDir ==
   [][/\ call'.op = "scratchTempDir" =>
            /\ call'.ret = IF Resolvable(fs) THEN ScratchTmp ELSE call'.arg
            /\ fs.paths \subseteq fs'.paths
      /\ call'.op = "cleanUpScratchTempDir" =>
            /\ \A q \in fs.paths \ fs'.paths : IsUnder(q, ScratchTmp)
            /\ ~Resolvable(fs) => fs'.paths = fs.paths]_vars

\* C5 happens: the clean-up ran where the scratch temp dir resolves, and the
\* scratch directory and its other content are still there
C5_Witness ==
   /\ call.op = "cleanUpScratchTempDir"
   /\ scratchPath = Scratch
   /\ fs.writable
   /\ ScratchTmp \notin fs.paths
   /\ complete(Scratch, "keep") \in fs.paths

Digits == {"0", "1", "2", "3", "4", "5", "6", "7", "8", "9"}
DigitValue(c) == CHOOSE d \in 0..9 : DigitChar(d) = c

RECURSIVE ParseDecimal(_)
ParseDecimal(chars) ==
   IF chars = <<>> THEN 0
   ELSE 10 * ParseDecimal(SubSeq(chars, 1, Len(chars) - 1))
        + DigitValue(chars[Len(chars)])

\* C6: a generated port number is the decimal string of an integer in
\* 8080..48079, whatever the random source returned.
C6_PortInRange ==
   portNumber_ # <<>> =>
      /\ \A i \in 1..Len(portNumber_) : portNumber_[i] \in Digits
      /\ ParseDecimal(portNumber_) \in 8080..48079

WindowsPeer(port) ==
   <<"\\", "\\", ".", "\\", "p", "i", "p", "e", "\\">> \o port
      \o <<"-", "r", "s", "e", "s", "s", "i", "o", "n">>

\* C7: portNumber() generates a non-empty value when none is held, and
\* otherwise returns the held value without a draw; newPortNumber() always
\* draws, and what it returns is held; localPeer() changes nothing; and on
\* Windows, once a port is generated, the local peer is \\.\pipe\<port>-rsession
\* for the held port.
C7_PortHeld ==
   [][/\ (call'.op = "portNumber" /\ portNumber_ = <<>>) =>
            call'.drew /\ call'.ret # <<>> /\ portNumber_' = call'.ret
      /\ (call'.op = "portNumber" /\ portNumber_ # <<>>) =>
            ~call'.drew /\ call'.ret = portNumber_ /\ portNumber_' = portNumber_
      /\ call'.op = "newPortNumber" =>
            call'.drew /\ call'.ret # <<>> /\ portNumber_' = call'.ret
      /\ call'.op = "localPeer" =>
            portNumber_' = portNumber_ /\ call'.ret = localPeer_
      /\ (platform = "windows" /\ portNumber_' # <<>>) =>
            localPeer_' = WindowsPeer(portNumber_')]_vars

\* C7 happens: on Windows a new port number replaced the one held, and a later
\* portNumber() returned it without a draw
C7_Witness ==
   /\ platform = "windows"
   /\ call.op = "portNumber"
   /\ ~call.drew
   /\ call.ret = <<"8", "0", "8", "1">>
   /\ localPeer_ = WindowsPeer(<<"8", "0", "8", "1">>)

\* the fallback: the first font of the list, in list order, in `among'
FirstAmong(list, among, none) ==
   LET idx == {i \in 1..Len(list) : list[i] \in among}
   IN  IF idx = {} THEN none
       ELSE "\"" \o list[CHOOSE i \in idx : \A j \in idx : i <= j] \o "\""

\* C8: setFixedWidthFont(f) stores f, or removes the key when f is empty;
\* fixedWidthFont() returns the stored font in double quotes, or without one the
\* first font of the platform's list that matches exactly and is fixed width, in
\* quotes, or monospace unquoted; proportionalFont() returns the stored font as
\* it is, or the first exactly matching font of the platform's list in quotes,
\* or sans-serif unquoted.
C8_Fonts ==
   [][/\ call'.op = "setFixedWidthFont" =>
            settings' = [settings EXCEPT !["font.fixedWidth"] =
                            IF call'.arg = "" THEN Invalid ELSE QString(call'.arg)]
      /\ call'.op = "fixedWidthFont" =>
            call'.ret = IF settings["font.fixedWidth"].t # "Invalid"
                        THEN "\"" \o settings["font.fixedWidth"].v \o "\""
                        ELSE FirstAmong(FixedWidthFontList,
                                        exactMatch \cap fixedPitch, "monospace")
      /\ call'.op = "proportionalFont" =>
            call'.ret = IF settings["font.proportional"].t # "Invalid"
                        THEN settings["font.proportional"].v
                        ELSE FirstAmong(ProportionalFontList, exactMatch,
                                        "sans-serif")]_vars

\* C8 happens: with no stored font, the fallback passed over an installed font
\* that is not fixed width and took a later one of the list
C8_Witness ==
   /\ call.op = "fixedWidthFont"
   /\ ~contains(settings, "font.fixedWidth")
   /\ platform = "linux"
   /\ "Ubuntu Mono" \in exactMatch \ fixedPitch
   /\ "Monospace" \in exactMatch \cap fixedPitch
   /\ call.ret = "\"Monospace\""

====
